---- MODULE Spec2Model ----
(***************************************************************************)
(* Byte-at-a-time Ethernet frame decoder (src/main.rs): struct Decoder,    *)
(* its recv_byte state machine and the CRC it checks, driven by a byte     *)
(* source that plays bounded streams built from wire encodings.            *)
(*                                                                         *)
(* Representation: a byte is 0..255; a Rust array is a 1-indexed sequence  *)
(* (index pos of the code is pos + 1 here); Option<T> is a sequence of     *)
(* length 0 (None) or 1 (Some); a u32 is a pair <<hi, lo>> of 16-bit limbs *)
(* because TLC integers are 32-bit signed.                                 *)
(***************************************************************************)
EXTENDS Integers, Sequences, FiniteSets, TLC

VARIABLES
    pos,          \* Decoder.pos
    interim,      \* Decoder.interim : [u8; 8]
    payload_len,  \* Decoder.payload_len
    frame,        \* Decoder.frame : EthFrame
    state,        \* Decoder.state : DecodeState
    panicked,     \* an index or unwrap aborted the process
    ret,          \* Option<EthFrame> returned by the last recv_byte call
    out,          \* main's `frames`: every frame returned so far, in order
    seen,         \* history: bytes consumed per field since the last delimiter
    since,        \* history: bytes fed from the last call made in Waiting on
    scn,          \* the stream being played (fixed by Init)
    input,        \* bytes of the stream not yet fed
    extra         \* bytes fed after the stream ran out

decoder == <<pos, interim, payload_len, frame, state, panicked>>
vars == <<pos, interim, payload_len, frame, state, panicked, ret, out, seen, since, scn, input, extra>>

----------------------------------------------------------------------------
\* Bounds of the exploration.
MaxLen == 2       \* longest payload a played frame carries
MaxGarbage == 2   \* longest garbage prefix
MaxExtra == 2     \* bytes fed after the stream ran out

----------------------------------------------------------------------------
\* Program constants.
PREAMBLE_LEN == 7
PREAMBLE == <<85, 85, 85, 85, 85, 85, 85>>
SFD == 171

Zeros(n) == [i \in 1..n |-> 0]

None == <<>>
Some(x) == <<x>>

\* Variant: the derived default of an optional field, no tag.
EthFrame_derived_default ==
    [rx_mac |-> Zeros(6), tx_mac |-> Zeros(6), tag802 |-> None, payload |-> <<>>]

EthFrame_default ==
    [rx_mac |-> Zeros(6), tx_mac |-> Zeros(6), tag802 |-> Some(Zeros(2)), payload |-> <<>>]

----------------------------------------------------------------------------
\* 32-bit words as limb pairs, and the CRC of crc32fast's baseline.

RECURSIVE XorBits(_, _)
XorBits(a, b) ==
    IF a = 0 THEN b
    ELSE IF b = 0 THEN a
    ELSE 2 * XorBits(a \div 2, b \div 2) + ((a + b) % 2)

\* Exclusive or, by nibbles.
XorNibble == [a \in 0..15 |-> [b \in 0..15 |-> XorBits(a, b)]]
Xor8(a, b) == 16 * XorNibble[a \div 16][b \div 16] + XorNibble[a % 16][b % 16]
Xor(a, b) == 256 * Xor8(a \div 256, b \div 256) + Xor8(a % 256, b % 256)

Xor32(x, y) == <<Xor(x[1], y[1]), Xor(x[2], y[2])>>
Not32(x) == <<65535 - x[1], 65535 - x[2]>>
Shr32(x, k) == <<x[1] \div (2^k), (x[2] \div (2^k)) + (x[1] % (2^k)) * (2^(16 - k))>>

\* The reflected CRC-32 polynomial 0xEDB88320.
CrcPoly == <<60856, 33568>>

RECURSIVE TableEntry(_, _)
TableEntry(c, k) ==
    IF k = 0 THEN c
    ELSE TableEntry(IF c[2] % 2 = 1 THEN Xor32(Shr32(c, 1), CrcPoly) ELSE Shr32(c, 1), k - 1)

CRC32_TABLE == [i \in 0..255 |-> TableEntry(<<0, i>>, 8)]

\* One byte through the table (baseline::update_slow's loop body).
CrcStep(crc, byte) == Xor32(CRC32_TABLE[Xor(crc[2] % 256, byte)], Shr32(crc, 8))

\* The loop over buf[lo..hi], split in halves; each half's register is bound
\* to its value before the next half runs.
RECURSIVE CrcBytes(_, _, _, _)
CrcBytes(crc, buf, lo, hi) ==
    IF lo > hi THEN crc
    ELSE IF lo = hi THEN CrcStep(crc, buf[lo])
    ELSE LET mid == (lo + hi) \div 2 IN
         CHOOSE r \in {CrcBytes(c, buf, mid + 1, hi) : c \in {CrcBytes(crc, buf, lo, mid)}} : TRUE

\* Hasher::update: the register is the complement of the running value.
HasherUpdate(prev, buf) == Not32(CrcBytes(Not32(prev), buf, 1, Len(buf)))

\* Mutant: the length field read little-endian.
U16FromLe(t) == t[2] * 256 + t[1]

U16FromBe(t) == t[1] * 256 + t[2]
U32FromBe(c) == <<c[1] * 256 + c[2], c[3] * 256 + c[4]>>

----------------------------------------------------------------------------
\* The decoder: one definition per handler of recv_byte.

\* Variant: the cursor keeps its value, only the scratch buffer is zeroed.
clear_interim_only == pos' = pos /\ interim' = Zeros(8)

clear_pos_and_interim == pos' = 0 /\ interim' = Zeros(8)

clear_all == clear_pos_and_interim /\ payload_len' = 0

\* An out-of-range index or an unwrap of None aborts the process.
Abort == panicked' = TRUE /\ UNCHANGED <<pos, interim, payload_len, frame, state>>

\* Variant: the first byte is compared with the first pattern position.
step_waiting_checked(b) ==
    IF pos >= Len(interim) THEN Abort
    ELSE IF PREAMBLE[pos + 1] # b
    THEN UNCHANGED <<pos, interim, payload_len, frame, state, panicked>>
    ELSE /\ state' = "Preamble"
         /\ interim' = [interim EXCEPT ![pos + 1] = b]
         /\ pos' = pos + 1
         /\ UNCHANGED <<payload_len, frame, panicked>>

step_waiting(b) ==
    IF pos >= Len(interim) THEN Abort
    ELSE /\ state' = "Preamble"
         /\ interim' = [interim EXCEPT ![pos + 1] = b]
         /\ pos' = pos + 1
         /\ UNCHANGED <<payload_len, frame, panicked>>

\* Variant: a mismatching byte is taken as the first byte of a new preamble.
step_preamble_resync(b) ==
    IF pos >= Len(PREAMBLE) THEN Abort
    ELSE IF PREAMBLE[pos + 1] # b
    THEN /\ state' = "Preamble"
         /\ interim' = [Zeros(8) EXCEPT ![1] = b]
         /\ pos' = 1
         /\ UNCHANGED <<payload_len, frame, panicked>>
    ELSE IF pos + 1 = PREAMBLE_LEN
    THEN /\ clear_pos_and_interim
         /\ state' = "Sfd"
         /\ UNCHANGED <<payload_len, frame, panicked>>
    ELSE /\ pos' = pos + 1
         /\ UNCHANGED <<interim, state, payload_len, frame, panicked>>

step_preamble(b) ==
    IF pos >= Len(PREAMBLE) THEN Abort
    ELSE IF PREAMBLE[pos + 1] # b
    THEN /\ state' = "Waiting"
         /\ clear_pos_and_interim
         /\ UNCHANGED <<payload_len, frame, panicked>>
    ELSE IF pos + 1 = PREAMBLE_LEN
    THEN /\ clear_pos_and_interim
         /\ state' = "Sfd"
         /\ UNCHANGED <<payload_len, frame, panicked>>
    ELSE /\ pos' = pos + 1
         /\ UNCHANGED <<interim, state, payload_len, frame, panicked>>

\* Variant: a byte other than the delimiter keeps the decoder waiting for it.
step_sfd_stays(b) ==
    /\ state' = IF b = SFD THEN "RxMac" ELSE "Sfd"
    /\ UNCHANGED <<pos, interim, payload_len, frame, panicked>>

step_sfd(b) ==
    /\ state' = IF b = SFD THEN "RxMac" ELSE "Waiting"
    /\ UNCHANGED <<pos, interim, payload_len, frame, panicked>>

step_rx_mac(b) ==
    IF pos >= Len(frame.rx_mac) THEN Abort
    ELSE /\ frame' = [frame EXCEPT !.rx_mac[pos + 1] = b]
         /\ IF pos + 1 = Len(frame.rx_mac)
            THEN clear_pos_and_interim /\ state' = "TxMac"
            ELSE pos' = pos + 1 /\ UNCHANGED <<interim, state>>
         /\ UNCHANGED <<payload_len, panicked>>

step_tx_mac(b) ==
    IF pos >= Len(frame.tx_mac) THEN Abort
    ELSE /\ frame' = [frame EXCEPT !.tx_mac[pos + 1] = b]
         /\ IF pos + 1 = Len(frame.tx_mac)
            THEN clear_pos_and_interim /\ state' = "Tag802"
            ELSE pos' = pos + 1 /\ UNCHANGED <<interim, state>>
         /\ UNCHANGED <<payload_len, panicked>>

step_tag802(b) ==
    IF frame.tag802 = None THEN UNCHANGED decoder
    ELSE IF pos >= Len(frame.tag802[1]) THEN Abort
    ELSE LET tag == [frame.tag802[1] EXCEPT ![pos + 1] = b] IN
         /\ frame' = [frame EXCEPT !.tag802 = Some(tag)]
         /\ IF pos + 1 = Len(tag)
            THEN /\ payload_len' = U16FromBe(tag)
                 /\ state' = "Payload"
                 /\ clear_pos_and_interim
            ELSE pos' = pos + 1 /\ UNCHANGED <<interim, state, payload_len>>
         /\ UNCHANGED panicked

step_payload(b) ==
    /\ frame' = [frame EXCEPT !.payload = Append(@, b)]
    /\ state' = IF Len(frame.payload) + 1 = payload_len THEN "Checksum" ELSE state
    /\ UNCHANGED <<pos, interim, payload_len, panicked>>

\* Hasher::new_with_initial(0xFFFFFFFF), four updates, finalize.
hash_crc32 ==
    LET h0 == <<65535, 65535>>
        h1 == HasherUpdate(h0, frame.rx_mac)
        h2 == HasherUpdate(h1, frame.tx_mac)
        h3 == HasherUpdate(h2, frame.tag802[1])
    IN  HasherUpdate(h3, frame.payload)

\* Mutant: the comparison inverted.
crc_differs(filled) == hash_crc32 # U32FromBe(SubSeq(filled, 1, 4))

\* crc_32 == verify, for the scratch bytes just filled.
crc_matches(filled) == hash_crc32 = U32FromBe(SubSeq(filled, 1, 4))

step_checksum(b) ==
    IF pos >= Len(interim) THEN Abort
    ELSE LET filled == [interim EXCEPT ![pos + 1] = b] IN
         IF pos + 1 # 4
         THEN /\ interim' = filled
              /\ pos' = pos + 1
              /\ UNCHANGED <<state, payload_len, frame, panicked>>
         ELSE IF frame.tag802 = None THEN Abort
         ELSE IF crc_matches(filled)
         THEN /\ state' = "Finished"
              /\ clear_pos_and_interim
              /\ UNCHANGED <<payload_len, frame, panicked>>
         ELSE /\ state' = "Invalid"
              /\ interim' = filled
              /\ pos' = pos + 1
              /\ UNCHANGED <<payload_len, frame, panicked>>

\* Variant: the expected payload length survives the emission.
step_finished_keeps_len ==
    /\ frame' = EthFrame_default
    /\ clear_pos_and_interim
    /\ state' = "Waiting"
    /\ UNCHANGED <<payload_len, panicked>>

\* mem::replace hands the finished frame to the caller.
step_finished ==
    /\ frame' = EthFrame_default
    /\ clear_all
    /\ state' = "Waiting"
    /\ UNCHANGED panicked

invalid_arm ==
    /\ state' = "Waiting"
    /\ clear_all
    /\ UNCHANGED <<frame, panicked>>

\* History: the bytes each field state consumed since the last accepted delimiter.
NoneSeen == [rx |-> <<>>, tx |-> <<>>, tag |-> <<>>, pay |-> <<>>, fcs |-> <<>>]

Observe(b) ==
    seen' = CASE state = "Sfd" /\ b = SFD -> NoneSeen
              [] state = "RxMac" -> [seen EXCEPT !.rx = Append(@, b)]
              [] state = "TxMac" -> [seen EXCEPT !.tx = Append(@, b)]
              [] state = "Tag802" -> [seen EXCEPT !.tag = Append(@, b)]
              [] state = "Payload" -> [seen EXCEPT !.pay = Append(@, b)]
              [] state = "Checksum" -> [seen EXCEPT !.fcs = Append(@, b)]
              [] OTHER -> seen

\* History: the byte a call made in Waiting consumed and every byte fed after
\* it; the last element is the byte of the latest call.
Track(b) == since' = IF state = "Waiting" THEN <<b>> ELSE Append(since, b)

\* The source moves on by one byte.
Consume ==
    /\ input' = IF input # <<>> THEN Tail(input) ELSE input
    /\ extra' = IF input # <<>> THEN extra ELSE extra + 1
    /\ scn' = scn

\* One call of main's loop: the byte is consumed and what recv_byte returns is kept.
Call(r, b) ==
    /\ ret' = r
    /\ out' = IF r = None THEN out ELSE Append(out, r[1])
    /\ Observe(b)
    /\ Track(b)
    /\ Consume

Waiting(b) == state = "Waiting" /\ step_waiting(b) /\ Call(None, b)
Preamble(b) == state = "Preamble" /\ step_preamble(b) /\ Call(None, b)
Sfd(b) == state = "Sfd" /\ step_sfd(b) /\ Call(None, b)
RxMac(b) == state = "RxMac" /\ step_rx_mac(b) /\ Call(None, b)
TxMac(b) == state = "TxMac" /\ step_tx_mac(b) /\ Call(None, b)
Tag802(b) == state = "Tag802" /\ step_tag802(b) /\ Call(None, b)
Payload(b) == state = "Payload" /\ step_payload(b) /\ Call(None, b)
Checksum(b) == state = "Checksum" /\ step_checksum(b) /\ Call(None, b)
\* Mutant: the fresh frame, not the finished one, handed to the caller.
Finished_returns_fresh(b) ==
    state = "Finished" /\ step_finished /\ Call(Some(EthFrame_default), b)

Finished(b) == state = "Finished" /\ step_finished /\ Call(Some(frame), b)
\* Variant: the byte that follows a rejected frame is kept as the first byte
\* of the next preamble.
Invalid_keeps_byte(b) ==
    /\ state = "Invalid"
    /\ state' = "Preamble"
    /\ interim' = [Zeros(8) EXCEPT ![1] = b]
    /\ pos' = 1
    /\ payload_len' = 0
    /\ UNCHANGED <<frame, panicked>>
    /\ Call(None, b)

Invalid(b) == state = "Invalid" /\ invalid_arm /\ Call(None, b)

\* Decoder::new
DecoderNew ==
    /\ pos = 0
    /\ state = "Waiting"
    /\ interim = Zeros(8)
    /\ payload_len = 0
    /\ frame = EthFrame_default
    /\ panicked = FALSE

----------------------------------------------------------------------------
\* The byte source: bounded streams built from wire encodings of frames.

BeBytes16(n) == <<n \div 256, n % 256>>
BeBytes32(w) == <<w[1] \div 256, w[1] % 256, w[2] \div 256, w[2] % 256>>

\* The reference checksum: receiver address, transmitter address, length
\* field, payload, in that order.
FrameCheck(rx, tx, tag, payload) ==
    HasherUpdate(HasherUpdate(HasherUpdate(HasherUpdate(<<65535, 65535>>, rx), tx), tag),
                 payload)

Damage(x) == (x + 1) % 256

\* A described frame d: addresses, payload, where the wire copy is damaged
\* (bad = 0 nowhere, bad = k in 1..Len(payload) in payload byte k,
\* bad = Len(payload) + 1 in the last checksum byte), and carry: bytes the
\* sender counts in front of the payload without sending them (empty for an
\* honest sender; otherwise the length field and the checksum are those of
\* carry \o payload while only payload goes on the wire), and lead: the byte
\* sent in place of the first preamble byte (0x55 for a valid frame).
WireBody(d) ==
    [i \in 1..Len(d.payload) |-> IF i = d.bad THEN Damage(d.payload[i]) ELSE d.payload[i]]

WireOf(d) ==
    LET tag == BeBytes16(Len(d.carry) + Len(d.payload))
        fcs == BeBytes32(FrameCheck(d.rx, d.tx, tag, d.carry \o d.payload))
        tail == IF d.bad = Len(d.payload) + 1 THEN [fcs EXCEPT ![4] = Damage(@)] ELSE fcs
    IN  <<d.lead>> \o SubSeq(PREAMBLE, 2, PREAMBLE_LEN) \o <<SFD>> \o d.rx \o d.tx \o tag
            \o WireBody(d) \o tail

FrameOf(d) ==
    [rx_mac |-> d.rx, tx_mac |-> d.tx, tag802 |-> Some(BeBytes16(Len(d.payload))),
     payload |-> d.payload]

Addr1 == <<1, 2, 3, 4, 5, 6>>
Addr2 == <<85, 171, 0, 255, 85, 7>>
AddrSet == {Addr1, Addr2}
PayloadBytes == {9, 85}
GarbageBytes == {0, SFD}
ExtraBytes == {0, 85}

Payloads == UNION {[1..n -> PayloadBytes] : n \in 0..MaxLen}
GarbageSeqs == UNION {[1..n -> GarbageBytes] : n \in 0..MaxGarbage}

Desc(r, t, p, k, c) ==
    [rx |-> r, tx |-> t, payload |-> p, bad |-> k, carry |-> c, lead |-> PREAMBLE[1]]

IsValid(d) == d.bad = 0 /\ d.carry = <<>> /\ d.lead = PREAMBLE[1]

\* First frames: every valid frame, and damaged copies of the frames Addr1 -> Addr2.
ValidDescs == {Desc(r, t, p, 0, <<>>) : r \in AddrSet, t \in AddrSet, p \in Payloads}
BadDescs == UNION {{Desc(Addr1, Addr2, p, k, <<>>) : k \in 1..(Len(p) + 1)} : p \in Payloads}
FirstDescs == ValidDescs \cup BadDescs

\* Frames Addr1 -> Addr2 whose first preamble byte is not 0x55, otherwise intact.
LeadDescs == {[Desc(Addr1, Addr2, p, 0, <<>>) EXCEPT !.lead = x] :
                 p \in Payloads, x \in GarbageBytes}

\* Second frames, Addr2 -> Addr1: valid ones, and after a damaged first frame
\* also ones that count the first frame's wire payload as their own prefix.
SecondDescs(d) ==
    {Desc(Addr2, Addr1, p, 0, <<>>) : p \in Payloads}
    \cup {Desc(Addr2, Addr1, p, 0, WireBody(d)) :
            p \in {q \in Payloads : d.bad # 0 /\ Len(d.payload) > 0 /\ Len(q) > 0}}

\* One frame after a prefix (garbage without 0x55, or one stray byte 0x55),
\* one frame with a wrong first preamble byte, or two frames with at most one
\* byte between them.
Scenarios ==
    {[pre |-> g, a |-> d, gap |-> <<>>, b |-> None] :
        g \in GarbageSeqs \cup {<<85>>}, d \in FirstDescs}
    \cup
    {[pre |-> <<>>, a |-> d, gap |-> <<>>, b |-> None] : d \in LeadDescs}
    \cup
    UNION {{[pre |-> <<>>, a |-> d, gap |-> g, b |-> Some(e)] :
                g \in {<<>>, <<0>>}, e \in SecondDescs(d)} : d \in FirstDescs}

StreamOf(s) ==
    s.pre \o WireOf(s.a) \o s.gap \o (IF s.b = None THEN <<>> ELSE WireOf(s.b[1]))

Init ==
    /\ DecoderNew
    /\ ret = None
    /\ out = <<>>
    /\ seen = NoneSeen
    /\ since = <<>>
    /\ scn \in Scenarios
    /\ input = StreamOf(scn)
    /\ extra = 0

\* The bytes the source may feed next: the stream's next byte, then up to
\* MaxExtra bytes of its choice; nothing once the process has aborted.
NextBytes ==
    IF panicked THEN {}
    ELSE IF input # <<>> THEN {Head(input)}
    ELSE IF extra < MaxExtra THEN ExtraBytes
    ELSE {}

\* recv_byte's match on the state, for the byte the source feeds.
Next ==
    \/ \E b \in NextBytes : Waiting(b)
    \/ \E b \in NextBytes : Preamble(b)
    \/ \E b \in NextBytes : Sfd(b)
    \/ \E b \in NextBytes : RxMac(b)
    \/ \E b \in NextBytes : TxMac(b)
    \/ \E b \in NextBytes : Tag802(b)
    \/ \E b \in NextBytes : Payload(b)
    \/ \E b \in NextBytes : Checksum(b)
    \/ \E b \in NextBytes : Finished(b)
    \/ \E b \in NextBytes : Invalid(b)

Spec == Init /\ [][Next]_vars

----------------------------------------------------------------------------
\* Vocabulary of the properties.

\* Length of a frame's wire encoding: preamble, delimiter, addresses, length
\* field, payload, checksum.
WireLen(d) == PREAMBLE_LEN + 1 + 6 + 6 + 2 + Len(d.payload) + 4

StreamLen(s) ==
    Len(s.pre) + WireLen(s.a) + Len(s.gap) + (IF s.b = None THEN 0 ELSE WireLen(s.b[1]))

\* Number of recv_byte calls made so far.
Fed == StreamLen(scn) - Len(input) + extra

\* The address and payload fields of a returned frame equal those of d.
SameFields(f, d) == f.rx_mac = d.rx /\ f.tx_mac = d.tx /\ f.payload = d.payload

\* The stream starts, on a fresh decoder, with the valid frame scn.a.
FreshValid == scn.pre = <<>> /\ IsValid(scn.a)

\* A sequence no byte of which is the preamble byte 0x55.
NoPreambleByte(g) == \A i \in 1..Len(g) : g[i] # PREAMBLE[1]

\* d's wire encoding, fed first: no frame up to its last checksum byte, then
\* the one frame on the next call, which leaves the decoder in Waiting.
EmissionTiming(d) ==
    /\ Fed <= WireLen(d) => ret = None /\ out = <<>>
    /\ Fed = WireLen(d) + 1 =>
          /\ ret # None
          /\ SameFields(ret[1], d)
          /\ out = <<ret[1]>>
          /\ state = "Waiting"

----------------------------------------------------------------------------
\* C1 (round trip): a valid frame with a payload of 1..MaxLen bytes, fed from
\* a fresh decoder byte by byte: no frame is returned up to its last checksum
\* byte, and the call for the one further byte returns exactly one frame whose
\* receiver address, transmitter address and payload are the originals.
C1_RoundTrip ==
    (FreshValid /\ Len(scn.a.payload) >= 1) =>
        /\ Fed <= WireLen(scn.a) => out = <<>>
        /\ Fed = WireLen(scn.a) + 1 =>
              /\ ret # None
              /\ out = <<ret[1]>>
              /\ SameFields(ret[1], scn.a)

C1_Witness ==
    /\ FreshValid
    /\ Len(scn.a.payload) = MaxLen
    /\ Fed = WireLen(scn.a) + 1
    /\ ret # None
    /\ SameFields(ret[1], scn.a)

----------------------------------------------------------------------------
\* C2 (checksum gate): a call returns a frame only if it was made in the
\* Finished state; in Finished the four bytes consumed in Checksum, taken
\* big-endian, equal the reference checksum over the frame's receiver address,
\* transmitter address, length field and payload; and a damaged wire encoding
\* fed to a fresh decoder has no frame returned for it, up to and including
\* the byte after its checksum.
C2_ChecksumGate ==
    /\ [][ret' # None => state = "Finished"]_vars
    /\ [](state = "Finished" =>
            /\ Len(seen.fcs) = 4
            /\ frame.tag802 # None
            /\ U32FromBe(seen.fcs) =
                   FrameCheck(frame.rx_mac, frame.tx_mac, frame.tag802[1], frame.payload))
    /\ []((scn.pre = <<>> /\ scn.a.bad # 0 /\ Fed <= WireLen(scn.a) + 1) => out = <<>>)

\* A damaged first frame went by without a frame, and a later call returned one.
C2_Witness ==
    /\ scn.pre = <<>>
    /\ scn.a.bad \in 1..Len(scn.a.payload)
    /\ Fed > WireLen(scn.a) + 1
    /\ ret # None

----------------------------------------------------------------------------
\* C3 (recovery after rejection): a first frame with a non-empty payload is
\* damaged, rejected through Invalid, and one byte later the decoder is back
\* in Waiting; the valid frame fed next, and one further byte, make the
\* decoder return that frame with its original addresses and payload.
C3_RecoveryAfterRejection ==
    ( /\ scn.pre = <<>>
      /\ scn.a.bad # 0
      /\ Len(scn.a.payload) >= 1
      /\ scn.gap = <<0>>
      /\ scn.b # None
      /\ input = <<>>
      /\ extra = 1 )
    => (IsValid(scn.b[1]) /\ Len(scn.b[1].payload) >= 1
          => ret # None /\ SameFields(ret[1], scn.b[1]))

\* The premise of C3 is met: the damaged frame is rejected and the byte after
\* it brings the decoder back to Waiting, before the second frame starts.
RejectedThenWaiting ==
    ( /\ scn.pre = <<>>
      /\ scn.a.bad # 0
      /\ Len(scn.a.payload) >= 1
      /\ scn.gap = <<0>> )
    => /\ Fed = WireLen(scn.a) => state = "Invalid"
       /\ Fed = WireLen(scn.a) + 1 => state = "Waiting" /\ out = <<>>

----------------------------------------------------------------------------
\* C4 (resynchronization): garbage without any 0x55, of any length up to
\* MaxGarbage, returns no frame, and the valid frame (payload of 1..MaxLen
\* bytes) fed right after it, with one further byte, is returned with its
\* original addresses and payload.
C4_Resynchronization ==
    ( /\ NoPreambleByte(scn.pre)
      /\ IsValid(scn.a)
      /\ Len(scn.a.payload) >= 1
      /\ scn.b = None )
    => /\ Fed <= Len(scn.pre) => ret = None /\ out = <<>>
       /\ (input = <<>> /\ extra = 1) => ret # None /\ SameFields(ret[1], scn.a)

----------------------------------------------------------------------------
\* C5 (idle tolerance): one stray byte of any value, then the complete wire
\* encoding of a valid frame (payload of 1..MaxLen bytes) and one further
\* byte: the frame is returned with its original addresses and payload.
C5_IdleTolerance ==
    ( /\ Len(scn.pre) = 1
      /\ IsValid(scn.a)
      /\ Len(scn.a.payload) >= 1
      /\ scn.b = None
      /\ input = <<>>
      /\ extra = 1 )
    => ret # None /\ SameFields(ret[1], scn.a)

----------------------------------------------------------------------------
\* C6 (boundary length): a valid frame with an empty payload and one with the
\* longest payload both decode from a fresh decoder: the byte after the
\* checksum returns the frame, with its original fields, and leaves the
\* decoder in Waiting.
C6_BoundaryLength ==
    ( /\ FreshValid
      /\ Len(scn.a.payload) \in {0, MaxLen}
      /\ Fed = WireLen(scn.a) + 1 )
    => /\ ret # None
       /\ SameFields(ret[1], scn.a)
       /\ state = "Waiting"

\* The longest payload alone does decode.
LongestDecodes ==
    ( /\ FreshValid
      /\ Len(scn.a.payload) = MaxLen
      /\ Fed = WireLen(scn.a) + 1 )
    => /\ ret # None
       /\ SameFields(ret[1], scn.a)
       /\ state = "Waiting"

----------------------------------------------------------------------------
\* C7 (emission timing): for a valid wire encoding fed from a fresh decoder,
\* no call up to the one consuming the last checksum byte returns a frame;
\* the next call returns the frame whatever its byte, leaves the decoder in
\* Waiting, and exactly one frame has been returned in all.
C7_EmissionTiming == FreshValid => EmissionTiming(scn.a)

\* The timing does hold for every valid frame that carries a payload.
EmissionTimingNonEmpty ==
    (FreshValid /\ Len(scn.a.payload) >= 1) => EmissionTiming(scn.a)

----------------------------------------------------------------------------
\* C8 (emitted-frame invariant): every returned frame has a length field, its
\* payload is as long as the big-endian value of that field, and its
\* addresses are the 6 + 6 bytes consumed in RxMac and TxMac since the last
\* delimiter.
C8_EmittedFrame ==
    ret # None =>
        /\ ret[1].tag802 # None
        /\ Len(ret[1].payload) = U16FromBe(ret[1].tag802[1])
        /\ Len(seen.rx) = 6
        /\ Len(seen.tx) = 6
        /\ ret[1].rx_mac = seen.rx
        /\ ret[1].tx_mac = seen.tx

\* A frame returned after an earlier frame was rejected.
C8_Witness ==
    /\ ret # None
    /\ Len(ret[1].payload) = MaxLen
    /\ Len(out) = 1
    /\ scn.a.bad # 0

----------------------------------------------------------------------------
\* C9 (no state leaks across frames): on entering RxMac the in-progress frame
\* is the default frame, and the payload of a returned frame is exactly the
\* bytes consumed in Payload since that frame's delimiter.
C9_NoLeak ==
    /\ (state = "RxMac" /\ pos = 0) => frame = EthFrame_default
    /\ ret # None => ret[1].payload = seen.pay

----------------------------------------------------------------------------
\* C10 (no unrecoverable state): no reachable state is a trap.  Every state
\* but Payload leaves its named state after a bounded number of bytes (2, 6,
\* 6, 4 or 1, whatever their values; a Preamble mismatch leads to Waiting);
\* Payload is left only by the push that makes the payload exactly
\* payload_len long, so it can be left iff the payload is still shorter.
C10_NoTrap == state = "Payload" => Len(frame.payload) < payload_len

\* Once the payload is as long as payload_len or longer, every byte keeps the
\* decoder in Payload with the payload longer still.
TrapIsClosed ==
    [][(state = "Payload" /\ Len(frame.payload) >= payload_len)
          => (state' = "Payload" /\ Len(frame'.payload) > payload_len')]_vars


\* C11 (Feed never fails): in every reachable state the cursor is in 0..7 and
\* the index the next recv_byte call will use is inside its array: 0 in
\* Waiting; 1..6 against the 7-byte preamble; below 6 in RxMac and TxMac;
\* below 2 in Tag802; below 4 in Checksum. No call has aborted.
C11_FeedNeverFails ==
    /\ ~panicked
    /\ pos \in 0..(Len(interim) - 1)
    /\ state = "Waiting" => pos = 0
    /\ state = "Preamble" => pos \in 1..(PREAMBLE_LEN - 1)
    /\ state \in {"RxMac", "TxMac"} => pos < Len(frame.rx_mac)
    /\ state = "Tag802" => pos < Len(frame.tag802[1])
    /\ state = "Checksum" => pos < 4

\* The cursor at its largest value in each indexed state is reached: a fourth
\* checksum byte is about to be stored after a full header went through.
C11_Witness ==
    /\ state = "Checksum" /\ pos = 3
    /\ Len(seen.rx) = 6 /\ Len(seen.tx) = 6 /\ Len(seen.tag) = 2

----------------------------------------------------------------------------
\* C12 (one frame per frame received): two valid frames with non-empty
\* payloads fed back to back (the first preamble byte of the second directly
\* after the last checksum byte of the first), then one further byte: the
\* decoder has returned exactly the two frames, in order, each with its
\* original addresses and payload.
C12_OneFramePerFrame ==
    ( /\ FreshValid
      /\ Len(scn.a.payload) >= 1
      /\ scn.gap = <<>>
      /\ scn.b # None
      /\ input = <<>>
      /\ extra = 1 )
    => (IsValid(scn.b[1]) /\ Len(scn.b[1].payload) >= 1
          => /\ Len(out) = 2
             /\ SameFields(out[1], scn.a)
             /\ SameFields(out[2], scn.b[1]))

\* The first of two back-to-back frames is returned by the call that consumes
\* the first preamble byte of the second; the delimiter of the second then
\* arrives while the preamble comparison still expects 0x55.
SecondPreambleCutShort ==
    ( /\ FreshValid
      /\ Len(scn.a.payload) >= 1
      /\ scn.gap = <<>>
      /\ scn.b # None )
    => /\ Fed = WireLen(scn.a) + 1 => ret # None /\ SameFields(ret[1], scn.a)
       /\ Fed = WireLen(scn.a) + PREAMBLE_LEN => state = "Preamble" /\ pos = PREAMBLE_LEN - 1
       /\ Fed = WireLen(scn.a) + PREAMBLE_LEN + 1 => state = "Waiting"
       /\ Fed > WireLen(scn.a) + 1 => Len(out) = 1

----------------------------------------------------------------------------
\* C13 (bounded payload buffer): in every reachable state the in-progress
\* payload is no longer than the largest value the 2-byte length field can
\* carry, and while the decoder is in Payload the payload is strictly shorter
\* than the expected payload length.
C13_BoundedPayload ==
    /\ Len(frame.payload) <= U16FromBe(<<255, 255>>)
    /\ state = "Payload" => Len(frame.payload) < payload_len

\* Once the payload is as long as the expected length while the decoder is in
\* Payload, every further byte of the stream lengthens it: the buffer is
\* bounded by the length of the input only.
PayloadGrowsWithInput ==
    [][(state = "Payload" /\ Len(frame.payload) >= payload_len)
         => (state' = "Payload" /\ Len(frame'.payload) = Len(frame.payload) + 1)]_vars

----------------------------------------------------------------------------
\* C14 (reset on emission): directly after a recv_byte call that returned a
\* frame, the decoder equals a freshly constructed one: Waiting, cursor 0,
\* scratch buffer all zero, expected payload length 0, in-progress frame the
\* default frame.
C14_ResetOnEmission ==
    ret # None =>
        /\ state = "Waiting"
        /\ pos = 0
        /\ interim = Zeros(8)
        /\ payload_len = 0
        /\ frame = EthFrame_default

\* A frame with a non-empty payload was returned by the latest call.
C14_Witness ==
    /\ ret # None
    /\ Len(ret[1].payload) = MaxLen
    /\ DecoderNew

----------------------------------------------------------------------------
\* C15 (transition order): every recv_byte call moves the state along one of
\* Waiting -> Preamble; Preamble -> Preamble, Waiting, Sfd; Sfd -> RxMac,
\* Waiting; RxMac -> RxMac, TxMac; TxMac -> TxMac, Tag802; Tag802 -> Tag802,
\* Payload; Payload -> Payload, Checksum; Checksum -> Checksum, Finished,
\* Invalid; Finished -> Waiting; Invalid -> Waiting. So a call that returns a
\* frame ends a run, begun by the last call made in Waiting, of 7 preamble
\* bytes, the delimiter, 6 + 6 + 2 header bytes, the payload, 4 checksum
\* bytes and the one byte consumed in Finished.
C15_TransitionOrder ==
    /\ [][(<<state, state'>>) \in
            {<<"Waiting", "Preamble">>,
             <<"Preamble", "Preamble">>, <<"Preamble", "Waiting">>, <<"Preamble", "Sfd">>,
             <<"Sfd", "RxMac">>, <<"Sfd", "Waiting">>,
             <<"RxMac", "RxMac">>, <<"RxMac", "TxMac">>,
             <<"TxMac", "TxMac">>, <<"TxMac", "Tag802">>,
             <<"Tag802", "Tag802">>, <<"Tag802", "Payload">>,
             <<"Payload", "Payload">>, <<"Payload", "Checksum">>,
             <<"Checksum", "Checksum">>, <<"Checksum", "Finished">>,
             <<"Checksum", "Invalid">>,
             <<"Finished", "Waiting">>, <<"Invalid", "Waiting">>}]_vars
    /\ [][ret' # None => state = "Finished" /\ state' = "Waiting"]_vars
    /\ [](ret # None =>
            /\ Len(seen.rx) = 6 /\ Len(seen.tx) = 6 /\ Len(seen.tag) = 2
            /\ Len(seen.fcs) = 4
            /\ Len(since) = PREAMBLE_LEN + 1 + 6 + 6 + 2 + Len(seen.pay) + 4 + 1
            /\ since[PREAMBLE_LEN + 1] = SFD)

\* The whole chain was walked twice: a second frame was returned by the
\* latest call, the first one having led back to Waiting.
C15_Witness ==
    /\ ret # None
    /\ Len(out) = 2
    /\ state = "Waiting"

----------------------------------------------------------------------------
\* C16 (unconditional first byte): whatever byte X a call made in Waiting
\* consumed, six bytes 0x55 and the delimiter 0xAB after it bring the decoder
\* to RxMac with cursor 0; X is not compared with anything, the six bytes are
\* compared with pattern positions 1..6, and RxMac is entered in no other way.
C16_UnconditionalFirstByte ==
    /\ (state = "RxMac" /\ pos = 0)
           <=> /\ Len(since) = PREAMBLE_LEN + 1
               /\ \A i \in 2..PREAMBLE_LEN : since[i] = PREAMBLE[i]
               /\ since[PREAMBLE_LEN + 1] = SFD
    /\ (scn.pre = <<>> /\ Fed = PREAMBLE_LEN + 1)
           => (state = "RxMac" /\ pos = 0 /\ since[1] = scn.a.lead)

\* A first byte other than 0x55 was followed by six 0x55 and the delimiter.
C16_Witness ==
    /\ state = "RxMac" /\ pos = 0
    /\ Len(since) = PREAMBLE_LEN + 1
    /\ since[1] = SFD

----------------------------------------------------------------------------
\* C17 (silent absorption): a recv_byte call that meets a preamble mismatch
\* (in Preamble, the byte differs from the pattern at the cursor) or a
\* delimiter mismatch (in Sfd, the byte is not 0xAB) returns no frame, leaves
\* the decoder in Waiting with cursor 0 and a zeroed scratch buffer, leaves
\* the in-progress frame and the expected payload length as they were, and
\* consumes the byte: nothing of it is kept for the next preamble.
C17_SilentAbsorption ==
    [][LET b == since'[Len(since')] IN
         ( \/ state = "Preamble" /\ b # PREAMBLE[pos + 1]
           \/ state = "Sfd" /\ b # SFD )
         => /\ ret' = None
            /\ out' = out
            /\ state' = "Waiting"
            /\ pos' = 0
            /\ interim' = Zeros(8)
            /\ frame' = frame
            /\ payload_len' = payload_len
            /\ Fed' = Fed + 1]_vars

\* A delimiter mismatch was absorbed: the byte after a full preamble was not
\* the delimiter and the decoder is in Waiting.
C17_Witness ==
    /\ state = "Waiting"
    /\ Len(since) = PREAMBLE_LEN + 1
    /\ since[PREAMBLE_LEN + 1] # SFD
    /\ \A i \in 2..PREAMBLE_LEN : since[i] = PREAMBLE[i]

----------------------------------------------------------------------------
\* C18 (ignored byte): in Finished and in Invalid the result of recv_byte and
\* the whole decoder state after it are fixed by the decoder state before the
\* call alone, so any two byte values fed in the same state give the same
\* result and the same state: the completed frame and a fresh decoder from
\* Finished; nothing, and Waiting with cursor, scratch buffer and expected
\* length zeroed and the frame kept, from Invalid.
C18_IgnoredByte ==
    [][/\ state = "Finished" =>
            /\ ret' = Some(frame)
            /\ state' = "Waiting"
            /\ pos' = 0
            /\ interim' = Zeros(8)
            /\ payload_len' = 0
            /\ frame' = EthFrame_default
            /\ panicked' = panicked
       /\ state = "Invalid" =>
            /\ ret' = None
            /\ state' = "Waiting"
            /\ pos' = 0
            /\ interim' = Zeros(8)
            /\ payload_len' = 0
            /\ frame' = frame
            /\ panicked' = panicked]_vars

\* A rejected frame was followed by a byte of free choice, here 0x55 (0x00 is
\* the other choice from the same state), consumed in Invalid.
C18_Witness ==
    /\ scn.pre = <<>> /\ scn.b = None /\ scn.a.bad # 0
    /\ extra = 1
    /\ Len(since) = WireLen(scn.a) + 1
    /\ since[Len(since)] = PREAMBLE[1]
    /\ state = "Waiting" /\ out = <<>>

\* A reachable state, the counterpart of the one above: a completed frame was
\* followed by the byte 0x00, consumed in Finished.
ZeroFedInFinished ==
    /\ scn.pre = <<>> /\ scn.b = None /\ Len(scn.a.payload) = 1
    /\ extra = 1
    /\ Len(since) = WireLen(scn.a) + 1
    /\ since[Len(since)] = 0
    /\ ret # None

----------------------------------------------------------------------------
\* C19 (tag always present): in every reachable state the in-progress frame
\* has its tag, so step_tag802 never returns early for want of it and the
\* unwrap in hash_crc32 never aborts.
C19_TagAlwaysPresent ==
    /\ frame.tag802 # None
    /\ Len(frame.tag802[1]) = 2
    /\ ~panicked
    /\ state \in {"Payload", "Checksum", "Finished", "Invalid"} => Len(seen.tag) = 2

\* The tag went through both uses: step_tag802 stored the two length bytes
\* and hash_crc32 read them for a checksum that then did not match.
C19_Witness ==
    /\ state = "Invalid"
    /\ frame.tag802 = Some(seen.tag)
    /\ Len(seen.fcs) = 4

====
